---------------------------- MODULE Spec2Model ----------------------------
(***************************************************************************)
(* State-machine model of scripts/google_cloud_platform_setting_example.py *)
(*                                                                         *)
(* Config.load_credentials, Config.bigquery_client and Config.genai_client *)
(* are classmethods wrapped in functools.lru_cache(maxsize=1).  The        *)
(* wrapper is modelled by its three steps: the cache lookup, the wrapped   *)
(* body (run without any lock held) and the store of the body's result.    *)
(* An exception leaves the wrapper before the store.                       *)
(*                                                                         *)
(* Non-ASCII text of the source (the description strings and the CJK part  *)
(* of the enum labels) cannot be written in a TLA+ string; descriptions    *)
(* are kept as the marker "<text>" and enum labels by their ASCII prefix.  *)
(***************************************************************************)
EXTENDS Integers, Sequences, FiniteSets, TLC

(* ------------------------------ bounds -------------------------------- *)

\* Number of threads that may call into the module.
NThreads == 2

\* Number of top-level calls a behaviour may start.
MaxCalls == 3

\* Number of distinct valid contents the credentials file may take.
MaxVer == 2

Threads == 1..NThreads

(* ------------------------- program constants -------------------------- *)

PROJECT_ID == "commanding-iris-806"

GENAI_LOCATION == "us-central1"

MODEL_NAME == "gemini-2.0-flash-lite"

\* temperature=0.3, kept exact as the fraction 3/10
Temperature == <<3, 10>>

\* prompt = "" in gemini_function_calling_example
HardcodedPrompt == ""

\* function_calling_2 = {}
EmptyDict == [k \in {} |-> ""]

(* ----------------------------- tool schema ---------------------------- *)

\* a required list that lost its last entry
RequiredWithoutTags ==
  << "session_end",
     "session_summary_user",
     "consumer_sentiment_score",
     "consumer_urgency_score",
     "consumer_purchase_potential_score",
     "potential_interest_products",
     "intent",
     "subintent",
     "suggested_responses" >>

\* "required": [...] of update_session_decl
UpdateSessionRequired ==
  << "session_end",
     "session_summary_user",
     "consumer_sentiment_score",
     "consumer_urgency_score",
     "consumer_purchase_potential_score",
     "potential_interest_products",
     "intent",
     "subintent",
     "suggested_responses",
     "customer_conversation_tags" >>

\* update_session_decl, the value function_calling_example returns
function_calling_example ==
  [ name |-> "update_session",
    description |-> "<text>",
    parameters |->
      [ type |-> "object",
        properties |->
          [ session_end |-> [type |-> "boolean", description |-> "<text>"],
            session_summary_user |->
              [type |-> "string", description |-> "<text>"],
            consumer_sentiment_score |-> [type |-> "integer"],
            consumer_urgency_score |-> [type |-> "integer"],
            consumer_purchase_potential_score |-> [type |-> "integer"],
            potential_interest_products |->
              [type |-> "array", items |-> [type |-> "string"]],
            intent |->
              [ type |-> "string",
                description |-> "<text>",
                enum |-> <<"A.", "B.">> ],
            subintent |->
              [ type |-> "array",
                items |-> [type |-> "string"],
                maxItems |-> 3,
                description |-> "<text>",
                enum |-> <<"A1.", "A2.", "A3.", "A4.",
                           "B1.", "B2.", "B3.", "B4.">> ],
            suggested_responses |->
              [ type |-> "array",
                items |-> [type |-> "string"],
                description |-> "<text>",
                minItems |-> 1,
                maxItems |-> 3 ],
            customer_conversation_tags |->
              [ type |-> "array",
                items |-> [type |-> "string"],
                description |-> "<text>" ] ],
        required |-> UpdateSessionRequired ] ]

(* --------------------------- names and values ------------------------- *)

LOAD == "load_credentials"

BQ == "bigquery_client"

GENAI == "genai_client"

GEMINI == "gemini_function_calling_example"

FCE == "function_calling_example"

\* the three lru_cache-wrapped classmethods of Config
Accessors == {LOAD, BQ, GENAI}

NoInst == [id |-> 0, kind |-> "None"]

\* Credentials.from_authorized_user_info(info): a new object built from the
\* content (version v) of the file
NewCredentials(i, v) == [id |-> i, kind |-> "Credentials", info |-> v]

\* bigquery.Client(project=cls.PROJECT_ID, credentials=creds)
NewBigqueryClient(i, creds) ==
  [id |-> i, kind |-> "bigquery.Client", project |-> PROJECT_ID,
   credentials |-> creds.id]

\* genai.Client(vertexai=True, project=cls.PROJECT_ID,
\*              location=cls.GENAI_LOCATION): no credentials argument
NewGenaiClient(i, creds) ==
  [id |-> i, kind |-> "genai.Client", vertexai |-> TRUE,
   project |-> PROJECT_ID, location |-> GENAI_LOCATION]

\* the states of the file at ADC_PATH, owned by the environment
BadFileStates == {"missing", "unreadable", "badjson", "nofields"}

Files ==
  {[state |-> s, ver |-> 0] : s \in BadFileStates}
    \cup {[state |-> "valid", ver |-> v] : v \in 1..MaxVer}

\* open(cls.ADC_PATH, "r"), json.load(f), from_authorized_user_info(info):
\* what the body of load_credentials ends with, by the state of the file
LoadOutcome(f) ==
  CASE f.state = "missing" -> "FileNotFoundError"
    [] f.state = "unreadable" -> "PermissionError"
    [] f.state = "badjson" -> "JSONDecodeError"
    [] f.state = "nofields" -> "ValueError"
    [] OTHER -> "ok"

FileAccessErrors == {"FileNotFoundError", "PermissionError"}

ParseErrors == {"JSONDecodeError", "ValueError"}

RequestErrors == {"RequestError", "RemoteServiceError"}

\* the prompts a caller may want to send
Prompts == {"", "test prompt"}

(* -------------------------------- state -------------------------------- *)

VARIABLES
  file,           \* the file at ADC_PATH (environment)
  cache,          \* the lru_cache slot of each accessor, NoInst when empty
  nextId,         \* identity of the next object constructed
  calls,          \* top-level calls started
  fileReads,      \* times open(cls.ADC_PATH) was executed
  built,          \* times each accessor's body constructed its object
  stack,          \* per thread: the frames of the call in progress
  pc,             \* per thread: position in the top frame
  val,            \* per thread: value handed between frames
  want,           \* per thread: prompt the caller of GEMINI wants sent
  seen,           \* per thread: state of the file this call's read found
  nreq,           \* per thread: generate_content requests of this call
  last,           \* outcome of the most recently completed top-level call
  first,          \* first object each accessor ever returned
  failedMissing,  \* load_credentials failed on a missing file, still missing
  schemas         \* the distinct values function_calling_example returned

vars ==
  <<file, cache, nextId, calls, fileReads, built, stack, pc, val, want,
    seen, nreq, last, first, failedMissing, schemas>>

NoLast ==
  [fn |-> "none", status |-> "none", val |-> NoInst, seen |-> "none",
   reads |-> 0, file |-> "none", nreq |-> 0, want |-> "", req |-> <<>>,
   wire |-> <<>>, resp |-> <<>>, out |-> <<>>]

Init ==
  /\ file \in Files
  /\ cache = [f \in Accessors |-> NoInst]
  /\ nextId = 1
  /\ calls = 0
  /\ fileReads = 0
  /\ built = [f \in Accessors |-> 0]
  /\ stack = [t \in Threads |-> <<>>]
  /\ pc = [t \in Threads |-> "idle"]
  /\ val = [t \in Threads |-> NoInst]
  /\ want = [t \in Threads |-> ""]
  /\ seen = [t \in Threads |-> "none"]
  /\ nreq = [t \in Threads |-> 0]
  /\ last = NoLast
  /\ first = [f \in Accessors |-> NoInst]
  /\ failedMissing = FALSE
  /\ schemas = {}

Top(t) == stack[t][Len(stack[t])]

Bottom(t) == stack[t][1]

AllIdle == \A t \in Threads : pc[t] = "idle"

(* ------------------------ the lru_cache wrapper ----------------------- *)

\* a lookup that never hits (the decorator left out)
HitNever(f) == FALSE

\* lru_cache lookup: the slot of f holds a result
Hit(f) == cache[f] # NoInst

\* a store that drops the result
CacheAfterStoreDropped(f, v) == cache

\* lru_cache after the body returned v: the slot is filled unless another
\* call filled it meanwhile; the caller gets v either way
CacheAfterStore(f, v) ==
  IF cache[f] = NoInst THEN [cache EXCEPT ![f] = v] ELSE cache

\* a failed fill that is memoized like a result
CacheAfterRaisePoisoned(f) ==
  [cache EXCEPT ![f] = [id |-> 0, kind |-> "Failed"]]

\* lru_cache when the body of f raised: nothing is stored
CacheAfterRaise(f) == cache

\* no client built from the loaded Credentials
UsesCredentialsNowhere(f) == FALSE

\* both clients built from the loaded Credentials
UsesCredentialsEverywhere(f) == TRUE

\* Which accessor bodies call cls.load_credentials(): bigquery_client does
\* (creds = cls.load_credentials()), genai_client does not
UsesCredentials(f) == f = BQ

\* where a frame continues once the call it made has returned
AfterCall(f) == IF f = GEMINI THEN "request" ELSE "construct"

\* the record of a completed top-level call of thread t: its outcome st and
\* value v, the state sn of the file its read found ("none": no read), the
\* reads rd made so far and the state of the file as the call ends
Result(t, st, v, sn, rd) ==
  [fn |-> Bottom(t), status |-> st, val |-> v, seen |-> sn, reads |-> rd,
   file |-> file.state, nreq |-> nreq[t], want |-> want[t], req |-> <<>>,
   wire |-> <<>>, resp |-> <<>>, out |-> <<>>]

\* the top-level call of thread t ends, with outcome rec
Finish(t, rec) ==
  /\ stack' = [stack EXCEPT ![t] = <<>>]
  /\ pc' = [pc EXCEPT ![t] = "idle"]
  /\ val' = [val EXCEPT ![t] = NoInst]
  /\ want' = [want EXCEPT ![t] = ""]
  /\ seen' = [seen EXCEPT ![t] = "none"]
  /\ nreq' = [nreq EXCEPT ![t] = 0]
  /\ last' = rec

\* the top frame (an accessor) returns v to its caller
Return(t, v) ==
  /\ first' = IF first[Top(t)] = NoInst
                THEN [first EXCEPT ![Top(t)] = v]
                ELSE first
  /\ IF Len(stack[t]) = 1
       THEN Finish(t, Result(t, "ok", v, seen[t], fileReads))
       ELSE /\ stack' = [stack EXCEPT ![t] = SubSeq(@, 1, Len(@) - 1)]
            /\ pc' = [pc EXCEPT ![t] = AfterCall(stack[t][Len(stack[t]) - 1])]
            /\ val' = [val EXCEPT ![t] = v]
            /\ UNCHANGED <<want, seen, nreq, last>>

\* an exception raised in the top frame: no frame of the file catches
\* anything, so it ends the top-level call
Raise(t, err, sn, rd) ==
  /\ Finish(t, Result(t, err, NoInst, sn, rd))
  /\ cache' = CacheAfterRaise(Top(t))

\* wrapper entry: a hit returns the cached object, a miss runs the body
Lookup(t) ==
  /\ pc[t] = "lookup"
  /\ IF Hit(Top(t))
       THEN /\ Return(t, cache[Top(t)])
            /\ UNCHANGED <<file, cache, nextId, calls, fileReads, built,
                           failedMissing, schemas>>
       ELSE /\ pc' = [pc EXCEPT ![t] = "body"]
            /\ UNCHANGED <<file, cache, nextId, calls, fileReads, built,
                           stack, val, want, seen, nreq, last, first,
                           failedMissing, schemas>>

\* wrapper exit: store the body's result and return it
Store(t) ==
  /\ pc[t] = "store"
  /\ cache' = CacheAfterStore(Top(t), val[t])
  /\ Return(t, val[t])
  /\ UNCHANGED <<file, nextId, calls, fileReads, built, failedMissing,
                 schemas>>

(* ----------------------------- the bodies ----------------------------- *)

\* Config.load_credentials: open and parse the file, build Credentials
LoadCredentialsBody(t) ==
  /\ pc[t] = "body"
  /\ Top(t) = LOAD
  /\ fileReads' = fileReads + 1
  /\ IF LoadOutcome(file) = "ok"
       THEN /\ val' = [val EXCEPT ![t] = NewCredentials(nextId, file.ver)]
            /\ nextId' = nextId + 1
            /\ built' = [built EXCEPT ![LOAD] = @ + 1]
            /\ seen' = [seen EXCEPT ![t] = file.state]
            /\ pc' = [pc EXCEPT ![t] = "store"]
            /\ UNCHANGED <<cache, stack, want, nreq, last, failedMissing>>
       ELSE /\ Raise(t, LoadOutcome(file), file.state, fileReads + 1)
            /\ failedMissing' =
                 IF Bottom(t) = LOAD /\ file.state = "missing"
                   THEN TRUE
                   ELSE failedMissing
            /\ UNCHANGED <<nextId, built>>
  /\ UNCHANGED <<file, calls, first, schemas>>

\* Config.bigquery_client / Config.genai_client, first statement
ClientBody(t) ==
  /\ pc[t] = "body"
  /\ Top(t) \in {BQ, GENAI}
  /\ IF UsesCredentials(Top(t))
       THEN /\ stack' = [stack EXCEPT ![t] = Append(@, LOAD)]
            /\ pc' = [pc EXCEPT ![t] = "lookup"]
       ELSE /\ pc' = [pc EXCEPT ![t] = "construct"]
            /\ UNCHANGED stack
  /\ UNCHANGED <<file, cache, nextId, calls, fileReads, built, val, want,
                 seen, nreq, last, first, failedMissing, schemas>>

\* Config.bigquery_client / Config.genai_client, the constructor call
Construct(t) ==
  /\ pc[t] = "construct"
  /\ val' = [val EXCEPT ![t] =
               IF Top(t) = BQ
                 THEN NewBigqueryClient(nextId, val[t])
                 ELSE NewGenaiClient(nextId, val[t])]
  /\ nextId' = nextId + 1
  /\ built' = [built EXCEPT ![Top(t)] = @ + 1]
  /\ pc' = [pc EXCEPT ![t] = "store"]
  /\ UNCHANGED <<file, cache, calls, fileReads, stack, want, seen, nreq,
                 last, first, failedMissing, schemas>>

(* ------------------- gemini_function_calling_example ------------------ *)

\* a request whose tools list lost the placeholder
BuildRequestOneTool ==
  [ model |-> MODEL_NAME,
    contents |-> HardcodedPrompt,
    config |->
      [ tools |-> << [function_declarations |-> <<function_calling_example>>] >>,
        temperature |-> Temperature ] ]

\* tools_list and config, and the arguments of generate_content
BuildRequest ==
  [ model |-> MODEL_NAME,
    contents |-> HardcodedPrompt,
    config |->
      [ tools |->
          << [function_declarations |-> <<function_calling_example>>],
             [function_declarations |-> <<EmptyDict>>] >>,
        temperature |-> Temperature ] ]

\* what the hosted service may answer: a response that carries the request
\* it answers, or a failure of the transport or of the service
Replies(req) ==
  {[outcome |-> "ok", request |-> req]}
    \cup {[outcome |-> e] : e \in RequestErrors}

\* a failed request that is sent again
AfterGenerateContentRetry(outcome) ==
  IF outcome = "ok" THEN "return" ELSE "request"

\* resp = client.models.generate_content(...); return resp: the response
\* is returned, an exception is not caught
AfterGenerateContent(outcome) == IF outcome = "ok" THEN "return" ELSE "raise"

\* return resp
ReturnValue(resp) == resp

\* lines 82-92: build the declarations, then call Config.genai_client()
GeminiBody(t) ==
  /\ pc[t] = "body"
  /\ Top(t) = GEMINI
  /\ schemas' = schemas \cup {function_calling_example}
  /\ stack' = [stack EXCEPT ![t] = Append(@, GENAI)]
  /\ pc' = [pc EXCEPT ![t] = "lookup"]
  /\ UNCHANGED <<file, cache, nextId, calls, fileReads, built, val, want,
                 seen, nreq, last, first, failedMissing>>

\* lines 93-98: one generate_content request on the client obtained
GenerateContent(t) ==
  /\ pc[t] = "request"
  /\ \E reply \in Replies(BuildRequest) :
       LET n == nreq[t] + 1
           rec == [Result(t, reply.outcome, val[t], seen[t], fileReads)
                     EXCEPT !.nreq = n,
                            !.req = <<BuildRequest>>,
                            !.wire = <<reply>>]
       IN  CASE AfterGenerateContent(reply.outcome) = "return" ->
                  Finish(t, [rec EXCEPT !.resp = <<ReturnValue(reply)>>])
             [] AfterGenerateContent(reply.outcome) = "raise" ->
                  Finish(t, rec)
             [] OTHER ->
                  /\ nreq' = [nreq EXCEPT ![t] = n]
                  /\ UNCHANGED <<stack, pc, val, want, seen, last>>
  /\ UNCHANGED <<file, cache, nextId, calls, fileReads, built, first,
                 failedMissing, schemas>>

(* --------------------------- top-level calls -------------------------- *)

\* thread t calls fn(); p is the prompt the caller wants sent
Call(t, fn, p) ==
  /\ pc[t] = "idle"
  /\ calls < MaxCalls
  /\ calls' = calls + 1
  /\ stack' = [stack EXCEPT ![t] = <<fn>>]
  /\ pc' = [pc EXCEPT ![t] = IF fn \in Accessors THEN "lookup" ELSE "body"]
  /\ want' = [want EXCEPT ![t] = p]
  /\ UNCHANGED <<file, cache, nextId, fileReads, built, val, seen, nreq,
                 last, first, failedMissing, schemas>>

CallLoadCredentials(t) == Call(t, LOAD, "")

CallBigqueryClient(t) == Call(t, BQ, "")

CallGenaiClient(t) == Call(t, GENAI, "")

\* the function takes no parameter: whatever prompt the caller wants sent
\* cannot reach it
CallGemini(t) == \E p \in Prompts : Call(t, GEMINI, p)

\* function_calling_example(): builds and returns the declaration
CallFunctionCallingExample(t) ==
  /\ pc[t] = "idle"
  /\ calls < MaxCalls
  /\ calls' = calls + 1
  /\ schemas' = schemas \cup {function_calling_example}
  /\ last' = [NoLast EXCEPT !.fn = FCE,
                            !.status = "ok",
                            !.reads = fileReads,
                            !.file = file.state,
                            !.out = <<function_calling_example>>]
  /\ UNCHANGED <<file, cache, nextId, fileReads, built, stack, pc, val,
                 want, seen, nreq, first, failedMissing>>

\* the environment replaces, removes or damages the file at ADC_PATH
FileChange ==
  /\ file' \in Files \ {file}
  /\ failedMissing' = (failedMissing /\ file'.state = "missing")
  /\ UNCHANGED <<cache, nextId, calls, fileReads, built, stack, pc, val,
                 want, seen, nreq, last, first, schemas>>

Start(t) ==
  \/ CallLoadCredentials(t)
  \/ CallBigqueryClient(t)
  \/ CallGenaiClient(t)
  \/ CallGemini(t)
  \/ CallFunctionCallingExample(t)

Step(t) ==
  \/ Lookup(t)
  \/ Store(t)
  \/ LoadCredentialsBody(t)
  \/ ClientBody(t)
  \/ Construct(t)
  \/ GeminiBody(t)
  \/ GenerateContent(t)

\* the script as written: one call at a time
Next ==
  \/ \E t \in Threads : AllIdle /\ Start(t)
  \/ \E t \in Threads : Step(t)
  \/ FileChange

Spec == Init /\ [][Next]_vars

\* several threads call into the module at once; the file keeps the state
\* it starts in (any of Files), which is all a race on first access needs
NextThreads ==
  \/ \E t \in Threads : Start(t)
  \/ \E t \in Threads : Step(t)

SpecThreads == Init /\ [][NextThreads]_vars

(* ------------------------------- claims ------------------------------- *)

\* the most recently completed call was a successful call of fn
LastOk(fn) == last.fn = fn /\ last.status = "ok"

\* C1: once a call of load_credentials has succeeded, every later call
\* returns that same Credentials object and the file is not opened again,
\* whatever happens to the file afterwards; Credentials are built from the
\* file at most once, and bigquery_client holds that same object.
C1_CredentialsLoadedOnce ==
  /\ [](/\ built[LOAD] <= 1
        /\ LastOk(LOAD) =>
             /\ last.val = first[LOAD]
             /\ last.val.kind = "Credentials"
        /\ cache[BQ] # NoInst => cache[BQ].credentials = first[LOAD].id)
  /\ [][first[LOAD] # NoInst =>
          /\ fileReads' = fileReads
          /\ first'[LOAD] = first[LOAD]
          /\ cache'[LOAD] = first[LOAD]]_vars

\* C1 witness: a call of load_credentials answered from the cache, without a
\* read, as the file is missing
C1_Witness ==
  /\ LastOk(LOAD)
  /\ last.seen = "none"
  /\ last.file = "missing"
  /\ last.val = first[LOAD]
  /\ fileReads = 1

\* C3: under every interleaving of threads that call the same accessor
\* before its cache is filled, the fill runs at most once and all callers
\* receive the same instance.
C3_ConcurrentFirstAccess ==
  \A f \in Accessors :
    /\ built[f] <= 1
    /\ LastOk(f) => last.val = first[f]

\* C4: any two successful calls of a client accessor return the identical
\* client, and each client is constructed exactly once however often and in
\* whatever order the accessors are called.
C4_ClientsBuiltOnce ==
  /\ [](\A f \in {BQ, GENAI} :
          /\ built[f] <= 1
          /\ LastOk(f) =>
               /\ last.val = first[f]
               /\ last.val # NoInst
               /\ built[f] = 1)
  /\ [][\A f \in {BQ, GENAI} :
          first[f] # NoInst =>
            /\ first'[f] = first[f]
            /\ cache'[f] = first[f]
            /\ built'[f] = built[f]]_vars

\* C4 witness: bigquery_client answered from its cache after genai_client
\* was built in between
C4_Witness ==
  /\ LastOk(BQ)
  /\ last.seen = "none"
  /\ calls = 3
  /\ built[BQ] = 1
  /\ built[GENAI] = 1
  /\ first[GENAI].id > first[BQ].id

\* C2 as stated: with the file missing, load_credentials fails with a
\* file-access error, and after that failure neither bigquery_client nor
\* genai_client returns a client.
C2_NoClientAfterMissingFile ==
  /\ (last.fn = LOAD /\ last.seen = "missing") =>
       last.status \in FileAccessErrors
  /\ failedMissing => ~(LastOk(BQ) \/ LastOk(GENAI))

\* C2 amended: with the file missing, load_credentials fails with a
\* file-access error, and as long as the file stays missing no call of
\* bigquery_client returns a client: it fails with that same error.
C2_NoBigqueryClientAfterMissingFile ==
  /\ (last.fn = LOAD /\ last.seen = "missing") =>
       last.status \in FileAccessErrors
  /\ failedMissing =>
       /\ cache[LOAD] = NoInst
       /\ cache[BQ] = NoInst
       /\ ~LastOk(BQ)
       /\ last.fn = BQ => last.status = "FileNotFoundError"

\* C2 witness: bigquery_client has failed after load_credentials failed on
\* the missing file
C2_Witness ==
  /\ failedMissing
  /\ last.fn = BQ
  /\ last.status = "FileNotFoundError"
  /\ last.reads = 2

\* C5: a call of gemini_function_calling_example sends exactly one
\* generate_content request; a failed request is not repeated and its
\* failure reaches the caller as raised, a response is returned as received.
C5_OneRequestNoRetry ==
  /\ \A t \in Threads : nreq[t] <= 1
  /\ last.fn = GEMINI =>
       /\ last.nreq = 1
       /\ Len(last.wire) = 1
       /\ last.status = last.wire[1].outcome
       /\ IF last.wire[1].outcome = "ok"
            THEN last.resp = last.wire
            ELSE last.resp = <<>> /\ last.status \in RequestErrors

\* C5 witness: a call whose single request was rejected by the service
C5_Witness ==
  /\ last.fn = GEMINI
  /\ last.status = "RemoteServiceError"
  /\ last.nreq = 1

\* the frames of thread t include a frame of genai_client
InGenai(t) == \E i \in 1..Len(stack[t]) : stack[t][i] = GENAI

\* C6: genai_client does not use the loaded Credentials: a call of it never
\* enters load_credentials, never opens the file, leaves the caches of
\* load_credentials and bigquery_client as they are, and returns a client
\* whether load_credentials has succeeded, failed or never been called.
C6_GenaiIgnoresCredentials ==
  /\ [](/\ \A t \in Threads : InGenai(t) => Top(t) = GENAI
        /\ last.fn = GENAI =>
             /\ last.status = "ok"
             /\ last.val.kind = "genai.Client"
             /\ "credentials" \notin DOMAIN last.val
             /\ last.seen = "none")
  /\ [][(\E t \in Threads : InGenai(t)) =>
          /\ fileReads' = fileReads
          /\ cache'[LOAD] = cache[LOAD]
          /\ cache'[BQ] = cache[BQ]
          /\ built'[LOAD] = built[LOAD]
          /\ built'[BQ] = built[BQ]]_vars

\* C6 witness: genai_client returned a client after load_credentials had
\* failed on a missing file, no Credentials ever loaded
C6_Witness ==
  /\ LastOk(GENAI)
  /\ failedMissing
  /\ first[LOAD] = NoInst
  /\ fileReads = 1

\* the function declarations carried by a list of tools
RECURSIVE DeclCount(_)
DeclCount(tools) ==
  IF tools = <<>>
    THEN 0
    ELSE Len(Head(tools).function_declarations) + DeclCount(Tail(tools))

\* C7: the request of gemini_function_calling_example always carries
\* exactly two tool declarations, the update_session declaration and one
\* empty placeholder, and a temperature of 0.3; a response that echoes the
\* request carries those same two declarations.
C7_TwoToolsFixedTemperature ==
  last.fn = GEMINI =>
    /\ Len(last.req) = 1
    /\ Len(last.req[1].config.tools) = 2
    /\ DeclCount(last.req[1].config.tools) = 2
    /\ last.req[1].config.tools[1].function_declarations[1].name
         = "update_session"
    /\ DOMAIN last.req[1].config.tools[2].function_declarations[1] = {}
    /\ 10 * last.req[1].config.temperature[1]
         = 3 * last.req[1].config.temperature[2]
    /\ last.status = "ok" =>
         DeclCount(last.resp[1].request.config.tools) = 2

\* C7 witness: a call that returned the echoing response
C7_Witness ==
  /\ LastOk(GEMINI)
  /\ last.resp[1].request = last.req[1]
  /\ last.nreq = 1

\* C8: the contents of the request sent equal the prompt the caller
\* supplied, for every prompt.
C8_PromptIsSent ==
  last.fn = GEMINI =>
    /\ Len(last.req) = 1
    /\ last.req[1].contents = last.want

\* C9: function_calling_example returns, on every call and whatever calls
\* precede it, the same declaration, named update_session, whose required
\* list is exactly the ten named fields, each defined under properties.
C9_SchemaFixed ==
  /\ Cardinality(schemas) <= 1
  /\ last.fn = FCE => Len(last.out) = 1 /\ last.out[1] \in schemas
  /\ last.fn = GEMINI =>
       last.req[1].config.tools[1].function_declarations[1] \in schemas
  /\ \A s \in schemas :
       /\ s.name = "update_session"
       /\ s.parameters.required =
            << "session_end", "session_summary_user",
               "consumer_sentiment_score", "consumer_urgency_score",
               "consumer_purchase_potential_score",
               "potential_interest_products", "intent", "subintent",
               "suggested_responses", "customer_conversation_tags" >>
       /\ {s.parameters.required[i] : i \in 1..Len(s.parameters.required)}
            = DOMAIN s.parameters.properties
       /\ Cardinality(DOMAIN s.parameters.properties) = 10

\* C9 witness: the declaration returned by a direct call made after a
\* credentials load and a request had gone before
C9_Witness ==
  /\ last.fn = FCE
  /\ last.out[1].parameters.required[10] = "customer_conversation_tags"
  /\ first[GENAI] # NoInst
  /\ calls = 3

\* failures of the body of load_credentials
LoadErrors == FileAccessErrors \cup ParseErrors

\* C10: a failed fill is not cached: when load_credentials fails, or
\* bigquery_client fails because load_credentials did, both caches stay
\* empty, and the next call of either opens the file again and succeeds if
\* the file it then finds is valid.
C10_FailureNotCached ==
  /\ []((AllIdle /\ last.fn \in {LOAD, BQ} /\ last.status # "ok") =>
          /\ last.status \in LoadErrors
          /\ last.val = NoInst
          /\ cache[LOAD] = NoInst
          /\ cache[BQ] = NoInst)
  /\ [][(/\ last.fn \in {LOAD, BQ}
         /\ last.status \in LoadErrors
         /\ last' # last
         /\ last'.fn \in {LOAD, BQ}) =>
          /\ last'.seen # "none"
          /\ last'.reads = last.reads + 1
          /\ last'.seen = "valid" <=> last'.status = "ok"
          /\ last'.status = "ok" => last'.val = cache'[last'.fn]]_vars

\* C10 witness: bigquery_client succeeded on the second read of the file,
\* after load_credentials had failed on the first
C10_Witness ==
  /\ LastOk(BQ)
  /\ last.seen = "valid"
  /\ last.reads = 2
  /\ built[LOAD] = 1
  /\ calls = 2

===========================================================================
